---- MODULE Spec2Model ----
(***************************************************************************)
(* Founder-AI: the Gemini service wrappers (services/geminiService) and    *)
(* the two components that call them, CommitteeRoom and BoardSimulator.    *)
(*                                                                         *)
(* Two specifications:                                                     *)
(*   Spec    one invocation at a time of an entry point of the service     *)
(*           module: the synchronous part up to the generateContent call,  *)
(*           then the continuation after the await.                        *)
(*   SpecUI  one mounted screen (CommitteeRoom or BoardSimulator), its     *)
(*           effect runs, timers, user clicks, prop changes and unmount.   *)
(***************************************************************************)
EXTENDS Integers, Sequences, FiniteSets, TLC

(***************************************************************************)
(* JavaScript values.  Every value is a record tagged with its type; each  *)
(* type keeps its payload in a field of its own.  A string is a sequence   *)
(* of non-empty chunks, so that the empty string is <<>> and a template    *)
(* literal is concatenation.                                               *)
(***************************************************************************)
Undefined == [t |-> "undefined"]
Null == [t |-> "null"]
Bool(b) == [t |-> "bool", b |-> b]
Num(n) == [t |-> "num", n |-> n]
Str(c) == [t |-> "str", s |-> c]
Arr(a) == [t |-> "arr", a |-> a]
Obj(o) == [t |-> "obj", o |-> o]
EmptyObj == Obj([f \in {} |-> Undefined])

\* ToBoolean: what `if (v)`, `!v` and `a && b` test.
Truthy(v) ==
    CASE v.t = "undefined" -> FALSE
      [] v.t = "null" -> FALSE
      [] v.t = "bool" -> v.b
      [] v.t = "num" -> v.n # 0
      [] v.t = "str" -> Len(v.s) > 0
      [] OTHER -> TRUE

\* v.f for a value that is not null or undefined (those throw a TypeError).
Get(v, f) ==
    IF v.t = "obj" /\ f \in DOMAIN v.o THEN v.o[f] ELSE Undefined

\* Whether reading a property of v throws a TypeError.
ThrowsOnRead(v) == v.t \in {"null", "undefined"}

(***************************************************************************)
(* Texts the service can answer with, and what JSON.parse makes of each.   *)
(***************************************************************************)
TextProse == "I am sorry, I cannot help with that."
TextTruncated == "{\"score\":85,\"companyName\":"
TextNull == "null"
TextNumber == "42"
TextEmptyArray == "[]"
TextEmptyObject == "{}"
TextAnalysis == "{\"score\":85,\"companyName\":\"Acme\",\"summary\":\"B2B\",\"pros\":[\"team\"],\"cons\":[\"burn\"],\"metrics\":{\"marketSize\":\"large\",\"scalability\":\"high\",\"innovation\":\"moat\"}}"
TextAnalysisOver == "{\"score\":150,\"companyName\":\"Hype\",\"summary\":\"AI\",\"pros\":[\"story\"],\"cons\":[],\"metrics\":{\"marketSize\":\"huge\",\"scalability\":\"high\",\"innovation\":\"none\"}}"
TextAnalysisPartial == "{\"score\":85,\"companyName\":\"Acme\"}"
TextClaims == "[{\"id\":\"c1\",\"claim\":\"50% growth\",\"category\":\"Financial\",\"status\":\"Unverified\",\"aiQuestion\":\"source?\"}]"
TextDebate1 == "[{\"id\":\"1\",\"agentId\":\"tech\",\"text\":\"stack\"}]"
TextDebate2 == "[{\"id\":\"1\",\"agentId\":\"risk\",\"text\":\"burn\"},{\"id\":\"2\",\"agentId\":\"vision\",\"text\":\"market\"}]"
TextScenario == "{\"id\":\"scenario_1\",\"title\":\"Crisis\",\"description\":\"rival\",\"timeJump\":\"18 Months Later\",\"choices\":[{\"id\":\"A\",\"label\":\"cut\",\"consequence\":\"slow\"},{\"id\":\"B\",\"label\":\"raise\",\"consequence\":\"dilute\"}]}"
TextScenarioNoChoices == "{\"id\":\"scenario_1\",\"title\":\"Crisis\",\"description\":\"rival\",\"timeJump\":\"18 Months Later\"}"
TextVerdictGo == "{\"shouldCancel\":false,\"showWarning\":false,\"reason\":\"\"}"
TextVerdictWarn == "{\"shouldCancel\":false,\"showWarning\":true,\"reason\":\"vague\"}"
TextVerdictCancel == "{\"shouldCancel\":true,\"showWarning\":false,\"reason\":\"misaligned\"}"
TextVerdictCancelSilent == "{\"shouldCancel\":true,\"showWarning\":true,\"reason\":\"\"}"
TextVerdictPartial == "{\"shouldCancel\":true}"

MakeAnalysis(score, name, summary, pros, cons, market, scal, innov) ==
    Obj([score |-> Num(score), companyName |-> Str(<<name>>),
         summary |-> Str(<<summary>>), pros |-> Arr(pros), cons |-> Arr(cons),
         metrics |-> Obj([marketSize |-> Str(<<market>>),
                          scalability |-> Str(<<scal>>),
                          innovation |-> Str(<<innov>>)])])

AnalysisAcme ==
    MakeAnalysis(85, "Acme", "B2B", <<Str(<<"team">>)>>, <<Str(<<"burn">>)>>,
                 "large", "high", "moat")
AnalysisHype ==
    MakeAnalysis(150, "Hype", "AI", <<Str(<<"story">>)>>, <<>>,
                 "huge", "high", "none")
AnalysisPartial == Obj([score |-> Num(85), companyName |-> Str(<<"Acme">>)])

MakeMessage(id, agent, text) ==
    Obj([id |-> Str(<<id>>), agentId |-> Str(<<agent>>), text |-> Str(<<text>>)])

MakeChoice(id, label, consequence) ==
    Obj([id |-> Str(<<id>>), label |-> Str(<<label>>),
         consequence |-> Str(<<consequence>>)])

MakeVerdict(cancel, warn, reason) ==
    Obj([shouldCancel |-> Bool(cancel), showWarning |-> Bool(warn),
         reason |-> Str(reason)])

ScenarioCrisis ==
    Obj([id |-> Str(<<"scenario_1">>), title |-> Str(<<"Crisis">>),
         description |-> Str(<<"rival">>),
         timeJump |-> Str(<<"18 Months Later">>),
         choices |-> Arr(<<MakeChoice("A", "cut", "slow"),
                           MakeChoice("B", "raise", "dilute")>>)])
ScenarioNoChoices ==
    Obj([id |-> Str(<<"scenario_1">>), title |-> Str(<<"Crisis">>),
         description |-> Str(<<"rival">>),
         timeJump |-> Str(<<"18 Months Later">>)])

\* The value JSON.parse returns; SyntaxError marks the texts it rejects.
SyntaxError == [t |-> "SyntaxError"]
JSONParse(text) ==
    CASE text = TextNull -> Null
      [] text = TextNumber -> Num(42)
      [] text = TextEmptyArray -> Arr(<<>>)
      [] text = TextEmptyObject -> EmptyObj
      [] text = TextAnalysis -> AnalysisAcme
      [] text = TextAnalysisOver -> AnalysisHype
      [] text = TextAnalysisPartial -> AnalysisPartial
      [] text = TextClaims ->
            Arr(<<Obj([id |-> Str(<<"c1">>), claim |-> Str(<<"50% growth">>),
                       category |-> Str(<<"Financial">>),
                       status |-> Str(<<"Unverified">>),
                       aiQuestion |-> Str(<<"source?">>)])>>)
      [] text = TextDebate1 -> Arr(<<MakeMessage("1", "tech", "stack")>>)
      [] text = TextDebate2 ->
            Arr(<<MakeMessage("1", "risk", "burn"),
                  MakeMessage("2", "vision", "market")>>)
      [] text = TextScenario -> ScenarioCrisis
      [] text = TextScenarioNoChoices -> ScenarioNoChoices
      [] text = TextVerdictGo -> MakeVerdict(FALSE, FALSE, <<>>)
      [] text = TextVerdictWarn -> MakeVerdict(FALSE, TRUE, <<"vague">>)
      [] text = TextVerdictCancel -> MakeVerdict(TRUE, FALSE, <<"misaligned">>)
      [] text = TextVerdictCancelSilent -> MakeVerdict(TRUE, TRUE, <<>>)
      [] text = TextVerdictPartial -> Obj([shouldCancel |-> Bool(TRUE)])
      [] OTHER -> SyntaxError

ResponseTexts ==
    {"", TextProse, TextTruncated, TextNull, TextNumber, TextEmptyArray,
     TextEmptyObject, TextAnalysis, TextAnalysisOver, TextAnalysisPartial,
     TextClaims, TextDebate1, TextDebate2, TextScenario,
     TextScenarioNoChoices, TextVerdictGo, TextVerdictWarn, TextVerdictCancel,
     TextVerdictCancelSilent, TextVerdictPartial}


(***************************************************************************)
(* Bounds of the model.                                                    *)
(***************************************************************************)
\* Longest negotiation transcript handed to checkNegotiationProgress.
MaxMessages == 9
\* Runs of a component's effect: the mount and the changes of the analysis prop.
MaxRuns == 2
\* The clock stops after this many steps.
MaxClock == 4
\* Elements the reveal timer takes from a value that has no length.
MaxReveal == 1

(***************************************************************************)
(* Program constants.                                                      *)
(***************************************************************************)
\* checkNegotiationProgress looks at the conversation from this length on.
MinMessages == 6
\* ... and sends this many of the latest messages.
RecentWindow == 8
\* BoardSimulator waits this long before it asks for the scenario.
BoardDelayMs == 2000

ErrMissingKey == "Gemini API Key is missing. Please check your environment configuration."
ErrPdf == "Failed to process PDF report."
ErrVideo == "Failed to process video file. It might be too large for this browser-based demo."
ErrNoText == "No response text generated"
\* Errors raised by the runtime or by the client library.
ErrType == "TypeError"
ErrSyntax == "SyntaxError"
ErrApi == "ApiError"

EntryPoints ==
    {"analyzeStartupPitch", "createNegotiationSession", "performDueDiligence",
     "startCommitteeDebate", "startBoardSimulation", "checkNegotiationProgress"}
SimulationInvokers ==
    {"performDueDiligence", "startCommitteeDebate", "startBoardSimulation",
     "checkNegotiationProgress"}

(***************************************************************************)
(* What a call settles to.                                                 *)
(***************************************************************************)
NoResult == [kind |-> "none", value |-> Undefined, error |-> ""]
Returned(v) == [kind |-> "returned", value |-> v, error |-> ""]
Thrown(e) == [kind |-> "thrown", value |-> Undefined, error |-> e]

(***************************************************************************)
(* The service: ai.models.generateContent either rejects or resolves to a  *)
(* response whose text getter gives undefined or a string.                 *)
(***************************************************************************)
Rejected == [kind |-> "rejected", text |-> ""]
NoText == [kind |-> "notext", text |-> ""]
Text(t) == [kind |-> "text", text |-> t]
NoOutcome == [kind |-> "none", text |-> ""]

\* A request without a key is refused by the service.
ServiceOutcomes(key) ==
    IF key = "" THEN {Rejected}
    ELSE {Rejected, NoText} \cup {Text(t) : t \in ResponseTexts}

\* if (response.text)
HasText(o) == o.kind = "text" /\ o.text # ""

(***************************************************************************)
(* Arguments.                                                              *)
(***************************************************************************)
\* A File argument: null, a file the FileReader reads, one it fails on.
Files == {"null", "readable", "unreadable"}
ReportTexts == {"", "notes"}
\* The analysis argument: what analyzeStartupPitch can have returned for an
\* object response (it returns JSON.parse's value unchecked).
Analyses == {AnalysisAcme, AnalysisHype, AnalysisPartial}

Roles == {"user", "model"}
Other(role) == IF role = "user" THEN "model" ELSE "user"
\* Transcripts: message k carries the text k, so order is observable.  The
\* two sides alternate from either opening side, and at most once a side
\* speaks twice in a row (after message twice, 0 for never).
RoleAt(first, twice, k) ==
    IF (k - 1 - (IF twice # 0 /\ k > twice THEN 1 ELSE 0)) % 2 = 0
    THEN first ELSE Other(first)
Transcripts ==
    UNION {{[k \in 1..n |-> [role |-> RoleAt(first, twice, k), text |-> k]] :
                first \in Roles, twice \in 0..(IF n = 0 THEN 0 ELSE n - 1)}
           : n \in 0..MaxMessages}

NoArgs ==
    [analysis |-> Undefined, messages |-> <<>>, videoFile |-> "null",
     reportText |-> "", reportFile |-> "null"]

\* The synchronous part of a call ends in a result (done) or in a request.
Done(r) == [done |-> TRUE, result |-> r, payload |-> <<>>]
Request(payload) == [done |-> FALSE, result |-> NoResult, payload |-> payload]
Part(label, body) == [label |-> label, body |-> body]


(***************************************************************************)
(* The entry points, each as its synchronous part (up to the await of      *)
(* generateContent) and its continuation (from the await on).              *)
(***************************************************************************)
\* const apiKey = getApiKey(); if (!apiKey) ...
MissingKey(key) == key = ""

\* analyzeStartupPitch: key check, then the parts of the request; a file the
\* reader fails on ends the call before any request.
analyzeStartupPitchStart(key, videoFile, reportText, reportFile) ==
    IF MissingKey(key) THEN Done(Thrown(ErrMissingKey))
    ELSE IF reportFile = "unreadable" THEN Done(Thrown(ErrPdf))
    ELSE IF videoFile = "unreadable" THEN Done(Thrown(ErrVideo))
    ELSE Request(<<Part("text", 0)>>
                 \o (IF reportText # "" THEN <<Part("text", 1)>> ELSE <<>>)
                 \o (IF reportFile # "null" THEN <<Part("inlineData:pdf", 2)>> ELSE <<>>)
                 \o (IF videoFile # "null" THEN <<Part("inlineData:video", 3)>> ELSE <<>>))

\* Variant: the text is returned as received, without JSON.parse.
analyzeStartupPitchSettle_Unparsed(o) ==
    IF o.kind = "rejected" THEN Thrown(ErrApi)
    ELSE IF HasText(o)
         THEN IF JSONParse(o.text) = SyntaxError THEN Thrown(ErrSyntax)
              ELSE Returned(Str(<<o.text>>))
         ELSE Thrown(ErrNoText)

\* Variant: an empty response is swallowed as in the simulation invokers.
analyzeStartupPitchSettle_Swallow(o) ==
    IF o.kind = "rejected" THEN Thrown(ErrApi)
    ELSE IF HasText(o)
         THEN IF JSONParse(o.text) = SyntaxError THEN Thrown(ErrSyntax)
              ELSE Returned(JSONParse(o.text))
         ELSE Returned(EmptyObj)

\* try { response = await ...; if (response.text) return JSON.parse(...);
\*       else throw } catch (error) { throw error }
analyzeStartupPitchSettle(o) ==
    IF o.kind = "rejected" THEN Thrown(ErrApi)
    ELSE IF HasText(o)
         THEN IF JSONParse(o.text) = SyntaxError THEN Thrown(ErrSyntax)
              ELSE Returned(JSONParse(o.text))
         ELSE Thrown(ErrNoText)

\* createNegotiationSession: key check, then ai.chats.create, which builds a
\* local chat object and sends nothing.
ChatSession == [t |-> "chat"]
createNegotiationSessionStart(key) ==
    IF MissingKey(key) THEN Done(Thrown(ErrMissingKey))
    ELSE Done(Returned(ChatSession))

\* performDueDiligence: no key check; the prompt reads analysis.companyName
\* and analysis.summary, which cannot throw on an object.
performDueDiligenceStart(key, analysis) ==
    Request(<<Part("text", 0)>>)

EmptyList == Arr(<<>>)
performDueDiligenceSettle(o) ==
    IF o.kind = "rejected" THEN Returned(EmptyList)
    ELSE IF HasText(o)
         THEN IF JSONParse(o.text) = SyntaxError THEN Returned(EmptyList)
              ELSE Returned(JSONParse(o.text))
         ELSE Returned(EmptyList)

\* analysis.pros.join / analysis.cons.join throw a TypeError when the field
\* is missing; the prompt is built outside the try block.
JoinThrows(analysis, field) == Get(analysis, field).t # "arr"

\* startCommitteeDebate: no key check; the prompt joins pros and cons.
startCommitteeDebateStart(key, analysis) ==
    IF JoinThrows(analysis, "pros") \/ JoinThrows(analysis, "cons")
    THEN Done(Thrown(ErrType))
    ELSE Request(<<Part("text", 0)>>)

startCommitteeDebateSettle(o) ==
    IF o.kind = "rejected" THEN Returned(EmptyList)
    ELSE IF HasText(o)
         THEN IF JSONParse(o.text) = SyntaxError THEN Returned(EmptyList)
              ELSE Returned(JSONParse(o.text))
         ELSE Returned(EmptyList)

\* startBoardSimulation: no key check; the prompt joins cons.
startBoardSimulationStart(key, analysis) ==
    IF JoinThrows(analysis, "cons") THEN Done(Thrown(ErrType))
    ELSE Request(<<Part("text", 0)>>)

ErrorScenario ==
    Obj([id |-> Str(<<"error">>), title |-> Str(<<"Simulation Error">>),
         description |-> Str(<<"Could not generate scenario.">>),
         timeJump |-> Str(<<"Now">>), choices |-> Arr(<<>>)])

\* Variant: the catch block rethrows instead of returning the dummy.
startBoardSimulationSettle_Rethrow(o) ==
    IF o.kind = "rejected" THEN Thrown(ErrApi)
    ELSE IF HasText(o)
         THEN IF JSONParse(o.text) = SyntaxError THEN Thrown(ErrSyntax)
              ELSE Returned(JSONParse(o.text))
         ELSE Thrown("No text")

startBoardSimulationSettle(o) ==
    IF o.kind = "rejected" THEN Returned(ErrorScenario)
    ELSE IF HasText(o)
         THEN IF JSONParse(o.text) = SyntaxError THEN Returned(ErrorScenario)
              ELSE Returned(JSONParse(o.text))
         ELSE Returned(ErrorScenario)

\* checkNegotiationProgress
NoVerdict == MakeVerdict(FALSE, FALSE, <<>>)

\* Variant: messages.slice(0, 8), the earliest messages.
SliceLast_First(seq, n) ==
    IF Len(seq) <= n THEN seq ELSE SubSeq(seq, 1, n)

\* messages.slice(-8)
SliceLast(seq, n) ==
    IF Len(seq) <= n THEN seq ELSE SubSeq(seq, Len(seq) - n + 1, Len(seq))

\* recentMessages.map(msg => `${role === 'user' ? 'Founder' : 'VC'}: ${text}`)
ConversationText(messages) ==
    [k \in 1..Len(SliceLast(messages, RecentWindow)) |->
        Part(IF SliceLast(messages, RecentWindow)[k].role = "user"
             THEN "Founder" ELSE "VC",
             SliceLast(messages, RecentWindow)[k].text)]

\* Variant: the length gate is off by one.
checkNegotiationProgressStart_ShortGate(key, messages, analysis) ==
    IF MissingKey(key) THEN Done(Returned(NoVerdict))
    ELSE IF Len(messages) < MinMessages - 1 THEN Done(Returned(NoVerdict))
    ELSE Request(ConversationText(messages))

checkNegotiationProgressStart(key, messages, analysis) ==
    IF MissingKey(key) THEN Done(Returned(NoVerdict))
    ELSE IF Len(messages) < MinMessages THEN Done(Returned(NoVerdict))
    ELSE Request(ConversationText(messages))

CancelMarker == "(no-entry sign) "
\* `${v}` of a value
ToChunks(v) == IF v.t = "str" THEN v.s ELSE <<"[value]">>

\* result.reason = `<marker> ${result.reason}` on the parsed object
FormatReason(result) ==
    Obj([f \in DOMAIN result.o |->
            IF f = "reason"
            THEN Str(<<CancelMarker>> \o ToChunks(result.o[f]))
            ELSE result.o[f]])

\* Variant: the reason is prefixed whenever shouldCancel is set, also when
\* it is empty.
checkNegotiationProgressSettle_AlwaysPrefix(o) ==
    IF o.kind = "rejected" THEN Returned(NoVerdict)
    ELSE IF HasText(o)
         THEN IF JSONParse(o.text) = SyntaxError THEN Returned(NoVerdict)
              ELSE IF ThrowsOnRead(JSONParse(o.text)) THEN Returned(NoVerdict)
              ELSE IF Truthy(Get(JSONParse(o.text), "shouldCancel"))
                   THEN Returned(FormatReason(JSONParse(o.text)))
                   ELSE Returned(JSONParse(o.text))
         ELSE Returned(NoVerdict)

\* try { response = await ...; if (response.text) { result = JSON.parse(...);
\*       if (result.shouldCancel && result.reason) result.reason = ...;
\*       return result } return default } catch (e) { return default }
checkNegotiationProgressSettle(o) ==
    IF o.kind = "rejected" THEN Returned(NoVerdict)
    ELSE IF HasText(o)
         THEN IF JSONParse(o.text) = SyntaxError THEN Returned(NoVerdict)
              ELSE IF ThrowsOnRead(JSONParse(o.text)) THEN Returned(NoVerdict)
              ELSE IF Truthy(Get(JSONParse(o.text), "shouldCancel"))
                      /\ Truthy(Get(JSONParse(o.text), "reason"))
                   THEN Returned(FormatReason(JSONParse(o.text)))
                   ELSE Returned(JSONParse(o.text))
         ELSE Returned(NoVerdict)

(***************************************************************************)
(* State.                                                                  *)
(***************************************************************************)
VARIABLES
    apiKey,     \* import.meta.env.VITE_GEMINI_API_KEY || ""
    pc,         \* "idle", "awaiting" (generateContent pending), "settled"
    fn,         \* the entry point being invoked
    args,       \* its arguments
    sent,       \* the requests this invocation has handed to generateContent
    outcome,    \* what the service answered
    result      \* what the invocation returned or threw

    \* a screen: one component instance and the effect runs it started
VARIABLES
    screen,         \* "none", "committee" or "board"
    lifecycle,      \* "rendered" (effects not run yet), "mounted", "unmounted",
                    \* "crashed" (a render threw and React removed the tree)
    analysis,       \* the analysis prop
    runs,           \* one record per run of the effect (startDebate/loadScenario)
    now,            \* the clock, in ms
    messages,       \* CommitteeRoom: useState<CommitteeMessage[]>([])
    isDebating,     \* CommitteeRoom: useState(false)
    hasVoted,       \* CommitteeRoom: useState(false)
    scenario,       \* BoardSimulator: useState<BoardScenario | null>(null)
    isLoading,      \* BoardSimulator: useState(true)
    selectedChoice, \* BoardSimulator: useState<string | null>(null)
    showConsequence,\* BoardSimulator: useState(false)
    called          \* the callbacks of the parent invoked so far

svcVars == <<apiKey, pc, fn, args, sent, outcome, result>>
committeeVars == <<messages, isDebating, hasVoted>>
boardVars == <<scenario, isLoading, selectedChoice, showConsequence>>
uiVars == <<screen, lifecycle, analysis, runs, now, committeeVars, boardVars, called>>
vars == <<svcVars, uiVars>>

ApiKeys == {"", "AIza-key"}

\* The service module at rest.
SvcIdle ==
    /\ pc = "idle"
    /\ fn = ""
    /\ args = NoArgs
    /\ sent = <<>>
    /\ outcome = NoOutcome
    /\ result = NoResult

\* The useState initial values of both components.
HooksInit ==
    /\ messages = <<>>
    /\ isDebating = FALSE
    /\ hasVoted = FALSE
    /\ scenario = Null
    /\ isLoading = TRUE
    /\ selectedChoice = Null
    /\ showConsequence = FALSE

Init ==
    /\ apiKey \in ApiKeys
    /\ SvcIdle
    /\ screen = "none"
    /\ lifecycle = "unmounted"
    /\ analysis = Undefined
    /\ runs = <<>>
    /\ now = 0
    /\ HooksInit
    /\ called = {}

\* The call of f with arguments a, run up to its first await of the service.
Invoke(f, a, start) ==
    /\ pc = "idle"
    /\ fn' = f
    /\ args' = a
    /\ outcome' = NoOutcome
    /\ IF start.done
       THEN pc' = "settled" /\ result' = start.result /\ sent' = <<>>
       ELSE pc' = "awaiting" /\ result' = NoResult /\ sent' = <<start.payload>>
    /\ UNCHANGED <<apiKey, uiVars>>

\* Variant: a rejected request is sent once more before giving up.
Resume_Retry(f, o, settled) ==
    /\ pc = "awaiting"
    /\ fn = f
    /\ o \in ServiceOutcomes(apiKey)
    /\ outcome' = o
    /\ IF o.kind = "rejected" /\ Len(sent) < 2
       THEN pc' = "awaiting" /\ result' = NoResult /\ sent' = Append(sent, sent[1])
       ELSE pc' = "settled" /\ result' = settled /\ sent' = sent
    /\ UNCHANGED <<apiKey, fn, args, uiVars>>

\* The continuation of f once generateContent has settled with o.
Resume(f, o, settled) ==
    /\ pc = "awaiting"
    /\ fn = f
    /\ o \in ServiceOutcomes(apiKey)
    /\ outcome' = o
    /\ result' = settled
    /\ pc' = "settled"
    /\ UNCHANGED <<apiKey, fn, args, sent, uiVars>>

AnalyzeStartupPitch(videoFile, reportText, reportFile) ==
    /\ pc = "idle"
    /\ Invoke("analyzeStartupPitch",
              [NoArgs EXCEPT !.videoFile = videoFile, !.reportText = reportText,
                             !.reportFile = reportFile],
              analyzeStartupPitchStart(apiKey, videoFile, reportText, reportFile))

AnalyzeStartupPitchSettles(o) ==
    /\ pc = "awaiting"
    /\ Resume("analyzeStartupPitch", o, analyzeStartupPitchSettle(o))

CreateNegotiationSession ==
    /\ pc = "idle"
    /\ Invoke("createNegotiationSession", NoArgs,
              createNegotiationSessionStart(apiKey))

PerformDueDiligence(a) ==
    /\ pc = "idle"
    /\ Invoke("performDueDiligence", [NoArgs EXCEPT !.analysis = a],
              performDueDiligenceStart(apiKey, a))

PerformDueDiligenceSettles(o) ==
    /\ pc = "awaiting"
    /\ Resume("performDueDiligence", o, performDueDiligenceSettle(o))

StartCommitteeDebate(a) ==
    /\ pc = "idle"
    /\ Invoke("startCommitteeDebate", [NoArgs EXCEPT !.analysis = a],
              startCommitteeDebateStart(apiKey, a))

StartCommitteeDebateSettles(o) ==
    /\ pc = "awaiting"
    /\ Resume("startCommitteeDebate", o, startCommitteeDebateSettle(o))

StartBoardSimulation(a) ==
    /\ pc = "idle"
    /\ Invoke("startBoardSimulation", [NoArgs EXCEPT !.analysis = a],
              startBoardSimulationStart(apiKey, a))

StartBoardSimulationSettles(o) ==
    /\ pc = "awaiting"
    /\ Resume("startBoardSimulation", o, startBoardSimulationSettle(o))

CheckNegotiationProgress(m, a) ==
    /\ pc = "idle"
    /\ Invoke("checkNegotiationProgress",
              [NoArgs EXCEPT !.messages = m, !.analysis = a],
              checkNegotiationProgressStart(apiKey, m, a))

CheckNegotiationProgressSettles(o) ==
    /\ pc = "awaiting"
    /\ Resume("checkNegotiationProgress", o, checkNegotiationProgressSettle(o))

\* The caller has the result; the next invocation can start.
Return ==
    /\ pc = "settled"
    /\ pc' = "idle"
    /\ fn' = ""
    /\ args' = NoArgs
    /\ sent' = <<>>
    /\ outcome' = NoOutcome
    /\ result' = NoResult
    /\ UNCHANGED <<apiKey, uiVars>>

AllOutcomes == ServiceOutcomes("AIza-key")

Next ==
    \/ \E v \in Files, t \in ReportTexts, r \in Files : AnalyzeStartupPitch(v, t, r)
    \/ \E o \in AllOutcomes : AnalyzeStartupPitchSettles(o)
    \/ CreateNegotiationSession
    \/ \E a \in Analyses : PerformDueDiligence(a)
    \/ \E o \in AllOutcomes : PerformDueDiligenceSettles(o)
    \/ \E a \in Analyses : StartCommitteeDebate(a)
    \/ \E o \in AllOutcomes : StartCommitteeDebateSettles(o)
    \/ \E a \in Analyses : StartBoardSimulation(a)
    \/ \E o \in AllOutcomes : StartBoardSimulationSettles(o)
    \/ \E m \in Transcripts, a \in Analyses : CheckNegotiationProgress(m, a)
    \/ \E o \in AllOutcomes : CheckNegotiationProgressSettles(o)
    \/ Return

Spec == Init /\ [][Next]_vars

(***************************************************************************)
(* The two components.  A screen is one instance of CommitteeRoom or of    *)
(* BoardSimulator; each run of its effect is a record of runs.  Neither    *)
(* effect returns a cleanup function.  A state setter called while the     *)
(* instance is not mounted changes nothing.                                *)
(***************************************************************************)
Live == lifecycle = "mounted"

\* The answers of the service each screen is driven with: a failed call, a
\* null, a value of another shape, a value of the shape asked for.
CommitteeOutcomes ==
    {Rejected, Text(TextNull), Text(TextEmptyObject), Text(TextDebate2)}
BoardOutcomes ==
    {Rejected, Text(TextNull), Text(TextScenarioNoChoices), Text(TextScenario)}

\* A run: the analysis its closure still has to pass on, where it stands,
\* the value its call resolved to, the i of the interval callback, and when
\* its timeout was set and when it called the service (-1: not yet).
NewRun(a, phase) ==
    [analysis |-> a, phase |-> phase, value |-> Undefined, i |-> 0,
     armedAt |-> now, requestedAt |-> -1]

\* A run that has ended keeps nothing but how it ended.
EndedRun(phase) ==
    [analysis |-> Undefined, phase |-> phase, value |-> Undefined, i |-> 0,
     armedAt |-> 0, requestedAt |-> -1]

\* debateMessages.length and debateMessages[k]
LengthOf(v) == IF v.t = "arr" THEN Num(Len(v.a)) ELSE Undefined
At(v, k) == IF v.t = "arr" /\ k < Len(v.a) THEN v.a[k + 1] ELSE Undefined

InitUI ==
    /\ apiKey \in ApiKeys
    /\ SvcIdle
    /\ screen \in {"committee", "board"}
    /\ lifecycle = "rendered"
    /\ analysis \in Analyses
    /\ runs = <<>>
    /\ now = 0
    /\ HooksInit
    /\ called = {}

(***************************************************************************)
(* CommitteeRoom                                                           *)
(***************************************************************************)
\* startDebate up to its await: setIsDebating(true), then the call of
\* startCommitteeDebate, which has thrown already or has sent its request.
StartDebate(a) ==
    /\ runs' = Append(runs, NewRun(Undefined,
                                    IF startCommitteeDebateStart(apiKey, a).done
                                    THEN "rejected" ELSE "requesting"))
    /\ isDebating' = TRUE
    /\ UNCHANGED <<messages, hasVoted>>

MountCommitteeRoom ==
    /\ screen = "committee"
    /\ lifecycle = "rendered"
    /\ lifecycle' = "mounted"
    /\ StartDebate(analysis)
    /\ UNCHANGED <<svcVars, screen, analysis, now, boardVars, called>>

\* The parent passes another analysis: the effect runs again.
CommitteeAnalysisChanges(a) ==
    /\ screen = "committee"
    /\ Live
    /\ a # analysis
    /\ Len(runs) < MaxRuns
    /\ analysis' = a
    /\ StartDebate(a)
    /\ UNCHANGED <<svcVars, screen, lifecycle, now, boardVars, called>>

\* Variant: the effects return a cleanup that drops their timers and ignores
\* their pending calls.
Unmount_Cleanup ==
    /\ Live
    /\ lifecycle' = "unmounted"
    /\ runs' = [r \in 1..Len(runs) |-> [runs[r] EXCEPT !.phase = "aborted"]]
    /\ UNCHANGED <<svcVars, screen, analysis, now, committeeVars, boardVars,
                   called>>

\* The unmount of the instance: there is no cleanup to run.
Unmount ==
    /\ Live
    /\ lifecycle' = "unmounted"
    /\ UNCHANGED <<svcVars, screen, analysis, runs, now, committeeVars,
                   boardVars, called>>

UnmountCommitteeRoom ==
    /\ screen = "committee"
    /\ Unmount

\* The await of startCommitteeDebate resolves: the interval is set.
DebateResolves(r, o) ==
    /\ screen = "committee"
    /\ runs[r].phase = "requesting"
    /\ o \in ServiceOutcomes(apiKey) \cap CommitteeOutcomes
    /\ startCommitteeDebateSettle(o).kind = "returned"
    /\ runs' = [runs EXCEPT ![r] =
                    [@ EXCEPT !.phase = "revealing",
                              !.value = startCommitteeDebateSettle(o).value]]
    /\ UNCHANGED <<svcVars, screen, lifecycle, analysis, now, committeeVars,
                   boardVars, called>>

\* The await throws: catch (e) { setIsDebating(false) }
DebateRejects(r) ==
    /\ screen = "committee"
    /\ runs[r].phase = "rejected"
    /\ runs' = [runs EXCEPT ![r] = EndedRun("failed")]
    /\ isDebating' = IF Live THEN FALSE ELSE isDebating
    /\ UNCHANGED <<svcVars, screen, lifecycle, analysis, now, messages,
                   hasVoted, boardVars, called>>

\* Variant: the last tick stops the timer but does not open the vote.
IntervalTick_NoVote(r, lag) ==
    /\ screen = "committee"
    /\ runs[r].phase = "revealing"
    /\ IF ThrowsOnRead(runs[r].value)
       THEN \* debateMessages.length throws; the interval stays set
            /\ UNCHANGED <<runs, committeeVars>>
       ELSE IF LengthOf(runs[r].value).t = "num"
               /\ runs[r].i >= LengthOf(runs[r].value).n
       THEN \* clearInterval; setIsDebating(false)
            /\ runs' = [runs EXCEPT ![r] = EndedRun("cleared")]
            /\ isDebating' = IF Live THEN FALSE ELSE isDebating
            /\ hasVoted' = hasVoted
            /\ UNCHANGED messages
       ELSE \* setMessages(prev => [...prev, debateMessages[i]]); i++
            /\ LengthOf(runs[r].value).t = "num" \/ runs[r].i < MaxReveal
            /\ runs' = [runs EXCEPT ![r] = [@ EXCEPT !.i = @ + 1]]
            /\ messages' = IF Live
                           THEN Append(messages, At(runs[r].value, runs[r].i + lag))
                           ELSE messages
            /\ UNCHANGED <<isDebating, hasVoted>>
    /\ UNCHANGED <<svcVars, screen, lifecycle, analysis, now, boardVars, called>>

\* One call of the interval callback.  The updater passed to setMessages
\* reads i when React runs it: at once (lag 0) or in the next render, after
\* i++ (lag 1).
IntervalTick(r, lag) ==
    /\ screen = "committee"
    /\ runs[r].phase = "revealing"
    /\ IF ThrowsOnRead(runs[r].value)
       THEN \* debateMessages.length throws; the interval stays set
            /\ UNCHANGED <<runs, committeeVars>>
       ELSE IF LengthOf(runs[r].value).t = "num"
               /\ runs[r].i >= LengthOf(runs[r].value).n
       THEN \* clearInterval; setIsDebating(false); setHasVoted(true)
            /\ runs' = [runs EXCEPT ![r] = EndedRun("cleared")]
            /\ isDebating' = IF Live THEN FALSE ELSE isDebating
            /\ hasVoted' = IF Live THEN TRUE ELSE hasVoted
            /\ UNCHANGED messages
       ELSE \* setMessages(prev => [...prev, debateMessages[i]]); i++
            /\ LengthOf(runs[r].value).t = "num" \/ runs[r].i < MaxReveal
            /\ runs' = [runs EXCEPT ![r] = [@ EXCEPT !.i = @ + 1]]
            /\ messages' = IF Live
                           THEN Append(messages, At(runs[r].value, runs[r].i + lag))
                           ELSE messages
            /\ UNCHANGED <<isDebating, hasVoted>>
    /\ UNCHANGED <<svcVars, screen, lifecycle, analysis, now, boardVars, called>>

\* {hasVoted && <button onClick={onProceed}> ... <button onClick={onReject}>}
ClickProceed ==
    /\ screen = "committee"
    /\ Live
    /\ hasVoted
    /\ called' = called \cup {"onProceed"}
    /\ UNCHANGED <<svcVars, screen, lifecycle, analysis, runs, now,
                   committeeVars, boardVars>>

ClickWalkAway ==
    /\ screen = "committee"
    /\ Live
    /\ hasVoted
    /\ called' = called \cup {"onReject"}
    /\ UNCHANGED <<svcVars, screen, lifecycle, analysis, runs, now,
                   committeeVars, boardVars>>

(***************************************************************************)
(* BoardSimulator                                                          *)
(***************************************************************************)
\* The clock moves in steps of half the delay.
ClockStep == BoardDelayMs \div 2

\* Rendering the scenario view calls scenario.choices.map, which throws
\* when choices is not an array.
RenderThrows(loading, sc) ==
    ~loading /\ Truthy(sc) /\ Get(sc, "choices").t # "arr"

\* What the instance shows.
View ==
    IF ~Live THEN "none"
    ELSE IF isLoading THEN "loading"
    ELSE IF ~Truthy(scenario) THEN "failed"
    ELSE "scenario"

\* loadScenario up to its first await: the timeout is set.  (No run starts
\* so late that the clock would stop before its timeout.)
LoadScenario(a) ==
    /\ now + BoardDelayMs <= MaxClock * ClockStep
    /\ runs' = Append(runs, NewRun(a, "delay"))
    /\ UNCHANGED boardVars

MountBoardSimulator ==
    /\ screen = "board"
    /\ lifecycle = "rendered"
    /\ lifecycle' = "mounted"
    /\ LoadScenario(analysis)
    /\ UNCHANGED <<svcVars, screen, analysis, now, committeeVars, called>>

\* The parent passes another analysis: the effect runs again.
BoardAnalysisChanges(a) ==
    /\ screen = "board"
    /\ Live
    /\ a # analysis
    /\ Len(runs) < MaxRuns
    /\ analysis' = a
    /\ LoadScenario(a)
    /\ UNCHANGED <<svcVars, screen, lifecycle, now, committeeVars, called>>

UnmountBoardSimulator ==
    /\ screen = "board"
    /\ Unmount

\* Time passes.
Advance ==
    /\ screen = "board"
    /\ now < MaxClock * ClockStep
    /\ now' = now + ClockStep
    /\ UNCHANGED <<svcVars, screen, lifecycle, analysis, runs, committeeVars,
                   boardVars, called>>

\* setTimeout(r, 2000) fires, not before its delay: loadScenario goes on to
\* call startBoardSimulation, which has thrown already or has sent its request.
TimeoutFires(r) ==
    /\ screen = "board"
    /\ runs[r].phase = "delay"
    /\ now >= runs[r].armedAt + BoardDelayMs
    /\ runs' = [runs EXCEPT ![r] =
                    [@ EXCEPT !.phase =
                                  IF startBoardSimulationStart(apiKey, runs[r].analysis).done
                                  THEN "rejected" ELSE "requesting",
                              !.analysis = Undefined,
                              !.requestedAt = now]]
    /\ UNCHANGED <<svcVars, screen, lifecycle, analysis, now, committeeVars,
                   boardVars, called>>

\* The state after loadScenario has ended with scenario sc: isLoading is
\* false, and the render that follows may throw.
LoadEnds(r, sc) ==
    /\ runs' = [runs EXCEPT ![r] = EndedRun("done")]
    /\ IF Live
       THEN /\ scenario' = sc
            /\ isLoading' = FALSE
            /\ lifecycle' = IF RenderThrows(FALSE, sc) THEN "crashed" ELSE lifecycle
       ELSE UNCHANGED <<scenario, isLoading, lifecycle>>
    /\ UNCHANGED <<selectedChoice, showConsequence>>

\* The await of startBoardSimulation resolves: setScenario(sim), then
\* finally { setIsLoading(false) }
SimulationResolves(r, o) ==
    /\ screen = "board"
    /\ runs[r].phase = "requesting"
    /\ o \in ServiceOutcomes(apiKey) \cap BoardOutcomes
    /\ startBoardSimulationSettle(o).kind = "returned"
    /\ LoadEnds(r, startBoardSimulationSettle(o).value)
    /\ UNCHANGED <<svcVars, screen, analysis, now, committeeVars, called>>

\* Variant: the catch has no finally; isLoading is left as it is.
SimulationRejects_NoFinally(r) ==
    /\ screen = "board"
    /\ runs[r].phase = "rejected"
    /\ runs' = [runs EXCEPT ![r] = EndedRun("done")]
    /\ UNCHANGED <<svcVars, screen, lifecycle, analysis, now, committeeVars,
                   boardVars, called>>

\* The await throws: catch (e) {}, then finally { setIsLoading(false) }
SimulationRejects(r) ==
    /\ screen = "board"
    /\ runs[r].phase = "rejected"
    /\ LoadEnds(r, scenario)
    /\ UNCHANGED <<svcVars, screen, analysis, now, committeeVars, called>>

\* Variant: the choice buttons are never disabled.
HandleChoice_Enabled(k) ==
    /\ screen = "board"
    /\ View = "scenario"
    /\ k \in 1..Len(Get(scenario, "choices").a)
    /\ selectedChoice' = Get(Get(scenario, "choices").a[k], "id")
    /\ showConsequence' = TRUE
    /\ UNCHANGED <<svcVars, screen, lifecycle, analysis, runs, now,
                   committeeVars, scenario, isLoading, called>>

\* A click on the k-th choice button, which is disabled once a choice is
\* picked: handleChoice(choice.id)
HandleChoice(k) ==
    /\ screen = "board"
    /\ View = "scenario"
    /\ selectedChoice = Null
    /\ k \in 1..Len(Get(scenario, "choices").a)
    /\ selectedChoice' = Get(Get(scenario, "choices").a[k], "id")
    /\ showConsequence' = TRUE
    /\ UNCHANGED <<svcVars, screen, lifecycle, analysis, runs, now,
                   committeeVars, scenario, isLoading, called>>

\* {showConsequence && <button onClick={onRestart}>}
ClickRestart ==
    /\ screen = "board"
    /\ View = "scenario"
    /\ showConsequence
    /\ called' = called \cup {"onRestart"}
    /\ UNCHANGED <<svcVars, screen, lifecycle, analysis, runs, now,
                   committeeVars, boardVars>>

RunIds == 1..Len(runs)

NextUI ==
    \/ MountCommitteeRoom
    \/ \E a \in Analyses : CommitteeAnalysisChanges(a)
    \/ UnmountCommitteeRoom
    \/ \E r \in RunIds, o \in CommitteeOutcomes : DebateResolves(r, o)
    \/ \E r \in RunIds : DebateRejects(r)
    \/ \E r \in RunIds, lag \in {0, 1} : IntervalTick(r, lag)
    \/ ClickProceed
    \/ ClickWalkAway
    \/ MountBoardSimulator
    \/ \E a \in Analyses : BoardAnalysisChanges(a)
    \/ UnmountBoardSimulator
    \/ Advance
    \/ \E r \in RunIds : TimeoutFires(r)
    \/ \E r \in RunIds, o \in BoardOutcomes : SimulationResolves(r, o)
    \/ \E r \in RunIds : SimulationRejects(r)
    \/ \E k \in 1..2 : HandleChoice(k)
    \/ ClickRestart

SpecUI == InitUI /\ [][NextUI]_vars

(***************************************************************************)
(* Properties of the service module (checked under Spec).                  *)
(***************************************************************************)
\* The service call failed: rejected, no text, or text JSON.parse rejects.
FailedOutcome(o) ==
    \/ o.kind = "rejected"
    \/ o.kind = "notext"
    \/ o.kind = "text" /\ (o.text = "" \/ JSONParse(o.text) = SyntaxError)

\* The documented default of each simulation invoker.
DefaultOf(f) ==
    CASE f = "performDueDiligence" -> EmptyList
      [] f = "startCommitteeDebate" -> EmptyList
      [] f = "startBoardSimulation" -> ErrorScenario
      [] f = "checkNegotiationProgress" -> NoVerdict

\* The outcome the missing-key guard gives: the thrown configuration error,
\* or for checkNegotiationProgress the neutral verdict.
ConfigurationError(f, r) ==
    \/ r = Thrown(ErrMissingKey)
    \/ f = "checkNegotiationProgress" /\ r = Returned(NoVerdict)

\* C1: with the API key missing, an invocation of any entry point hands no
\* request to the service and ends in a configuration error.
C1_MissingKeyNoRequest ==
    (apiKey = "" /\ fn \in EntryPoints) =>
        /\ sent = <<>>
        /\ pc = "settled" => ConfigurationError(fn, result)

\* C2: whenever the service call was rejected, gave no text or gave text that
\* is not JSON, the simulation invoker returns (never throws) its default.
C2_DefaultOnFailedCall ==
    (pc = "settled" /\ fn \in SimulationInvokers /\ FailedOutcome(outcome)) =>
        result = Returned(DefaultOf(fn))

C2_Witness ==
    /\ pc = "settled"
    /\ fn = "startBoardSimulation"
    /\ outcome = Text(TextProse)
    /\ result = Returned(ErrorScenario)

\* C3: for a transcript of fewer than 6 messages checkNegotiationProgress
\* asks the service nothing and returns shouldCancel = false and
\* showWarning = false, with or without an API key, for every analysis.
C3_ShortTranscriptNeverFlags ==
    (fn = "checkNegotiationProgress" /\ Len(args.messages) < 6) =>
        /\ pc = "settled"
        /\ sent = <<>>
        /\ result.kind = "returned"
        /\ Get(result.value, "shouldCancel") = Bool(FALSE)
        /\ Get(result.value, "showWarning") = Bool(FALSE)

C3_Witness ==
    /\ pc = "settled"
    /\ fn = "checkNegotiationProgress"
    /\ apiKey # ""
    /\ Len(args.messages) = 5
    /\ result = Returned(NoVerdict)

\* The declared analysisSchema: the required fields with their types.
RequiredFields == {"score", "companyName", "summary", "pros", "cons", "metrics"}
StringList(v) == v.t = "arr" /\ \A k \in 1..Len(v.a) : v.a[k].t = "str"
MatchesAnalysisSchema(v) ==
    /\ v.t = "obj"
    /\ Get(v, "score").t = "num"
    /\ Get(v, "companyName").t = "str"
    /\ Get(v, "summary").t = "str"
    /\ StringList(Get(v, "pros"))
    /\ StringList(Get(v, "cons"))
    /\ Get(v, "metrics").t = "obj"

\* C4: when the response text is JSON that matches the analysis schema,
\* analyzeStartupPitch returns a record whose required fields are all
\* present and carry the values of the response.
C4_WellFormedAnalysisReturned ==
    (pc = "settled" /\ fn = "analyzeStartupPitch" /\ HasText(outcome)
        /\ JSONParse(outcome.text) # SyntaxError
        /\ MatchesAnalysisSchema(JSONParse(outcome.text))) =>
        /\ result.kind = "returned"
        /\ \A f \in RequiredFields :
              /\ Get(result.value, f) # Undefined
              /\ Get(result.value, f) = Get(JSONParse(outcome.text), f)

C4_Witness ==
    /\ pc = "settled"
    /\ fn = "analyzeStartupPitch"
    /\ outcome = Text(TextAnalysis)
    /\ Get(result.value, "score") = Num(85)
    /\ Get(Get(result.value, "metrics"), "innovation") = Str(<<"moat">>)

\* C5: analyzeStartupPitch ends in a thrown error, never in a returned
\* record, when the API key is absent or the service call failed (rejected,
\* empty text, text that is not JSON).
C5_AnalysisFailurePropagates ==
    (pc = "settled" /\ fn = "analyzeStartupPitch"
        /\ (apiKey = "" \/ FailedOutcome(outcome))) =>
        result.kind = "thrown"

C5_Witness ==
    /\ pc = "settled"
    /\ fn = "analyzeStartupPitch"
    /\ outcome = Text("")
    /\ result = Thrown(ErrNoText)

\* The record shapes the prompts ask for.
HasFields(v, fields) == v.t = "obj" /\ \A f \in fields : Get(v, f).t = "str"
ListOf(v, fields) == v.t = "arr" /\ \A k \in 1..Len(v.a) : HasFields(v.a[k], fields)
HasShape(f, v) ==
    CASE f = "performDueDiligence" ->
            ListOf(v, {"id", "claim", "category", "status", "aiQuestion"})
      [] f = "startCommitteeDebate" -> ListOf(v, {"id", "agentId", "text"})
      [] f = "startBoardSimulation" ->
            /\ HasFields(v, {"id", "title", "description", "timeJump"})
            /\ ListOf(Get(v, "choices"), {"id", "label", "consequence"})
      [] f = "checkNegotiationProgress" ->
            /\ v.t = "obj"
            /\ Get(v, "shouldCancel").t = "bool"
            /\ Get(v, "showWarning").t = "bool"
            /\ Get(v, "reason").t = "str"

\* C6: when the response text is JSON that does not have the shape of the
\* invoker's record, the simulation invoker returns its default instead.
C6_MalformedShapeReplaced ==
    (pc = "settled" /\ fn \in SimulationInvokers /\ HasText(outcome)
        /\ JSONParse(outcome.text) # SyntaxError
        /\ ~HasShape(fn, JSONParse(outcome.text))) =>
        result = Returned(DefaultOf(fn))

\* C7: one invocation hands at most one request to the service, however the
\* request ends.
C7_AtMostOneRequest ==
    /\ Len(sent) <= 1
    /\ (pc = "settled" /\ outcome # NoOutcome) => Len(sent) = 1

C7_Witness ==
    /\ pc = "settled"
    /\ fn = "performDueDiligence"
    /\ outcome = Rejected
    /\ Len(sent) = 1

(***************************************************************************)
(* Properties of the components (checked under SpecUI).                    *)
(***************************************************************************)
\* The run still has a timer or a call of the service ahead of it.
Pending(r) == runs[r].phase \in {"delay", "requesting", "rejected", "revealing"}

\* Every request was made at least 2000 ms after its timeout was set.
DelayRespected ==
    \A r \in RunIds :
        runs[r].requestedAt # -1 => runs[r].requestedAt - runs[r].armedAt >= 2000

\* C8: in BoardSimulator no run of the effect (at mount or after a change of
\* the analysis prop) calls startBoardSimulation before its 2000 ms have
\* passed, and while a run is in its delay or its request the mounted
\* instance shows the loading view.
C8_DelayAndLoadingView ==
    screen = "board" =>
        /\ DelayRespected
        /\ \A r \in RunIds : (Live /\ Pending(r)) => View = "loading"

\* The continuation of a run whose await is about to settle.
AwaitSettles(r) ==
    \/ DebateResolves(r, Rejected)
    \/ DebateRejects(r)
    \/ SimulationResolves(r, Rejected)
    \/ SimulationRejects(r)

\* C9: the unmount of CommitteeRoom or BoardSimulator aborts nothing: it
\* leaves every run, pending timer and pending request as it is, and after
\* it the continuation of every pending request and every due timer can
\* still run.
C9_UnmountAbortsNothing ==
    /\ [][(Live /\ lifecycle' = "unmounted") => runs' = runs]_vars
    /\ [](lifecycle = "unmounted" =>
            \A r \in RunIds :
                /\ runs[r].phase \in {"requesting", "rejected"}
                        => ENABLED AwaitSettles(r)
                /\ (runs[r].phase = "delay" /\ now - runs[r].armedAt >= 2000)
                        => ENABLED TimeoutFires(r)
                /\ (runs[r].phase = "revealing" /\ runs[r].value.t = "arr")
                        => ENABLED IntervalTick(r, 0))

\* A debate ran to its end (request, reveals, the clearing tick) on an
\* unmounted CommitteeRoom: none of its setters took effect.
C9_Witness ==
    /\ screen = "committee"
    /\ lifecycle = "unmounted"
    /\ Len(runs) = 1
    /\ runs[1].phase = "cleared"
    /\ messages = <<>>
    /\ isDebating /\ ~hasVoted

\* C10: in CommitteeRoom at most one reveal timer is appending to the
\* message list at any time, also after a change of the analysis prop.
C10_SingleDebateStream ==
    screen = "committee" =>
        Cardinality({r \in RunIds : runs[r].phase = "revealing"}) <= 1

(***************************************************************************)
(* Further properties of the service module (checked under Spec).          *)
(***************************************************************************)
\* C11: every record analyzeStartupPitch returns has a score that is a
\* number from 0 to 100, whatever the service answered.
C11_ScoreInRange ==
    (pc = "settled" /\ fn = "analyzeStartupPitch" /\ result.kind = "returned") =>
        /\ Get(result.value, "score").t = "num"
        /\ Get(result.value, "score").n \in 0..100

\* checkNegotiationProgress has settled on a transcript of at least
\* MinMessages messages and a response text that JSON.parse accepts.
VerdictParsed ==
    /\ pc = "settled"
    /\ fn = "checkNegotiationProgress"
    /\ Len(args.messages) >= MinMessages
    /\ HasText(outcome)
    /\ JSONParse(outcome.text) # SyntaxError

\* The returned value r is the parsed value v with nothing but the reason
\* touched: the reason carries the marker exactly when shouldCancel is truthy
\* and the reason is a non-empty string.
SameButReason(r, v) ==
    /\ Get(r, "shouldCancel") = Get(v, "shouldCancel")
    /\ Get(r, "showWarning") = Get(v, "showWarning")
    /\ IF Truthy(Get(v, "shouldCancel")) /\ Get(v, "reason").t = "str"
          /\ Get(v, "reason").s # <<>>
       THEN Get(r, "reason") = Str(<<CancelMarker>> \o Get(v, "reason").s)
       ELSE Get(r, "reason") = Get(v, "reason")

\* C17 (as claimed): for every response text that parses, the call returns
\* the parsed verdict with shouldCancel and showWarning as received and the
\* reason prefixed exactly when shouldCancel is truthy and the reason is
\* non-empty.
C17_VerdictPassedThrough ==
    VerdictParsed =>
        /\ result.kind = "returned"
        /\ SameButReason(result.value, JSONParse(outcome.text))

\* C17 (amended): the same for every response text that parses to a value
\* other than null; a response that parses to null gives the neutral verdict.
C17_VerdictPassedThroughUnlessNull ==
    VerdictParsed =>
        /\ result.kind = "returned"
        /\ IF JSONParse(outcome.text) = Null
           THEN result.value = NoVerdict
           ELSE /\ result.value.t = JSONParse(outcome.text).t
                /\ SameButReason(result.value, JSONParse(outcome.text))

\* A cancelling verdict with a reason came back with the marker in front.
C17_Witness ==
    /\ VerdictParsed
    /\ outcome = Text(TextVerdictCancel)
    /\ result.value = MakeVerdict(TRUE, FALSE, <<CancelMarker, "misaligned">>)

\* The label the prompt gives a message.
LabelOf(role) == IF role = "user" THEN "Founder" ELSE "VC"

\* C18: the conversation checkNegotiationProgress sends holds the last
\* min(RecentWindow, n) of the n >= MinMessages messages it was given, in
\* their order, each labelled Founder for the role user and VC otherwise; no
\* earlier message is in it, and the list it was given is as the caller
\* built it (message k still carries text k).
C18_RecentMessagesSent ==
    (fn = "checkNegotiationProgress" /\ sent # <<>>) =>
        LET n == Len(args.messages)
            w == IF n < RecentWindow THEN n ELSE RecentWindow
        IN  /\ n >= MinMessages
            /\ Len(sent) = 1
            /\ Len(sent[1]) = w
            /\ \A k \in 1..w :
                  /\ sent[1][k].body = args.messages[n - w + k].text
                  /\ sent[1][k].label = LabelOf(args.messages[n - w + k].role)
            /\ \A k \in 1..w : sent[1][k].body > n - w
            /\ \A k \in 1..n : args.messages[k].text = k

\* A transcript longer than the window was sent without its first message,
\* and both labels occur.
C18_Witness ==
    /\ fn = "checkNegotiationProgress"
    /\ Len(args.messages) = RecentWindow + 1
    /\ sent # <<>>
    /\ Len(sent[1]) = RecentWindow
    /\ sent[1][1].body = 2
    /\ sent[1][RecentWindow].body = RecentWindow + 1
    /\ {sent[1][k].label : k \in 1..RecentWindow} = {"Founder", "VC"}

(***************************************************************************)
(* Further properties of the two components (checked under SpecUI).        *)
(***************************************************************************)
\* Loading has ended on a mounted BoardSimulator with the dummy scenario of
\* a failed call or with no scenario at all.
LoadFailed ==
    /\ screen = "board"
    /\ Live
    /\ ~isLoading
    /\ scenario \in {ErrorScenario, Null}

\* The Restart button is on screen, or a choice button is, whose click puts
\* it there.
RestartInReach ==
    \/ ENABLED ClickRestart
    \/ \E k \in 1..2 : ENABLED HandleChoice(k)

\* C12: after a failed load (the dummy scenario or none) the user can still
\* get to the Restart button and so to onRestart.
C12_RestartReachableAfterFailure == LoadFailed => RestartInReach

SoleDebateOfList ==
    /\ screen = "committee"
    /\ Len(runs) = 1
    /\ runs[1].phase = "revealing"
    /\ runs[1].value.t = "arr"

\* C14: in CommitteeRoom with an unchanged analysis prop every change of the
\* message list appends the next message of the returned list, so the list
\* shown is always a prefix of the list returned; hasVoted turns true, with
\* isDebating false, only when all of them are shown; onProceed and onReject
\* are not called before hasVoted.
C14_RevealedInOrder ==
    /\ [][(SoleDebateOfList /\ messages' # messages) =>
            /\ Len(messages) < Len(runs[1].value.a)
            /\ messages' = SubSeq(runs[1].value.a, 1, Len(messages) + 1)]_vars
    /\ [][(SoleDebateOfList /\ ~hasVoted /\ hasVoted') =>
            /\ ~isDebating'
            /\ messages = runs[1].value.a]_vars
    /\ [](screen = "committee" /\ called # {} => hasVoted)

(***************************************************************************)
(* Scheduling.  Time passes, a timer that is due fires, an interval keeps  *)
(* ticking, and a pending call of the service settles.  Nothing obliges    *)
(* the parent to mount, unmount or change the prop, or the user to click.  *)
(* Each component is taken on its own; the vote buttons of CommitteeRoom,  *)
(* which only report to the parent, are left to SpecUI.                    *)
(***************************************************************************)
InitCommittee == InitUI /\ screen = "committee"

NextCommittee ==
    \/ MountCommitteeRoom
    \/ \E a \in Analyses : CommitteeAnalysisChanges(a)
    \/ UnmountCommitteeRoom
    \/ \E r \in RunIds, o \in CommitteeOutcomes : DebateResolves(r, o)
    \/ \E r \in RunIds : DebateRejects(r)
    \/ \E r \in RunIds, lag \in {0, 1} : IntervalTick(r, lag)

CommitteeFairness(r) ==
    /\ WF_vars(r \in RunIds /\ \E o \in CommitteeOutcomes : DebateResolves(r, o))
    /\ WF_vars(r \in RunIds /\ DebateRejects(r))
    /\ WF_vars(r \in RunIds /\ \E lag \in {0, 1} : IntervalTick(r, lag))

FairCommittee ==
    /\ InitCommittee
    /\ [][NextCommittee]_vars
    /\ \A r \in 1..MaxRuns : CommitteeFairness(r)

InitBoard == InitUI /\ screen = "board"

NextBoard ==
    \/ MountBoardSimulator
    \/ \E a \in Analyses : BoardAnalysisChanges(a)
    \/ UnmountBoardSimulator
    \/ Advance
    \/ \E r \in RunIds : TimeoutFires(r)
    \/ \E r \in RunIds, o \in BoardOutcomes : SimulationResolves(r, o)
    \/ \E r \in RunIds : SimulationRejects(r)
    \/ \E k \in 1..2 : HandleChoice(k)
    \/ ClickRestart

BoardFairness(r) ==
    /\ WF_vars(r \in RunIds /\ TimeoutFires(r))
    /\ WF_vars(r \in RunIds /\ \E o \in BoardOutcomes : SimulationResolves(r, o))
    /\ WF_vars(r \in RunIds /\ SimulationRejects(r))

FairBoard ==
    /\ InitBoard
    /\ [][NextBoard]_vars
    /\ WF_vars(Advance)
    /\ \A r \in 1..MaxRuns : BoardFairness(r)

\* The debate of run r was returned as a list and is being revealed on a
\* mounted CommitteeRoom.
RevealingList(r) ==
    /\ screen = "committee"
    /\ Live
    /\ r \in RunIds
    /\ runs[r].phase = "revealing"
    /\ runs[r].value.t = "arr"

\* Run r has cleared its interval and left the room in the voting state.
EndedInVote(r) ==
    /\ r \in RunIds
    /\ runs[r].phase = "cleared"
    /\ ~isDebating
    /\ hasVoted

\* C15: in CommitteeRoom, as long as it stays mounted, every debate that was
\* returned as a list (the empty list of a failed call included) comes to
\* the tick that stops its timer, sets isDebating false and hasVoted true.
C15_DebateEndsInVote ==
    \A r \in 1..MaxRuns : RevealingList(r) ~> (~Live \/ EndedInVote(r))

\* The empty list of a failed call: the first tick ended the debate with no
\* message shown.
C15_Witness ==
    /\ screen = "committee"
    /\ Live
    /\ EndedInVote(1)
    /\ messages = <<>>

\* C16: in BoardSimulator, as long as it stays mounted, isLoading comes to
\* be false, whether startBoardSimulation resolves or throws, and once false
\* it stays false; the step in which a resolved call ends the loading has
\* the resolved value as the scenario; the failure view is on screen only
\* with loading ended and the scenario null.
C16_LoadingEnds ==
    /\ (screen = "board" /\ Live /\ isLoading) ~> (~Live \/ ~isLoading)
    /\ [][~isLoading => ~isLoading']_vars
    /\ [][\A r \in 1..MaxRuns, o \in BoardOutcomes :
            (r \in RunIds /\ Live /\ SimulationResolves(r, o)) =>
                /\ ~isLoading'
                /\ scenario' = startBoardSimulationSettle(o).value]_vars
    /\ [](View = "failed" => ~isLoading /\ scenario = Null)

\* The first load has ended with the scenario the service gave, and the
\* scenario view is shown.
C16_Witness ==
    /\ screen = "board"
    /\ runs # <<>>
    /\ runs[1].phase = "done"
    /\ ~isLoading
    /\ scenario = ScenarioCrisis
    /\ View = "scenario"

====
